---- MODULE Spec2Model ----
(***************************************************************************)
(* State-machine model of kira_cdh_compat_lsh: the splitmix64 hashing      *)
(* primitives (util.rs), the KMV and MinHash sketches (kmv.rs, minhash.rs) *)
(* and the LSH banding index (lsh.rs).                                     *)
(*                                                                         *)
(* Machine words are modelled Width bits wide (the source uses 64): every  *)
(* wrapping_add / wrapping_mul is taken modulo 2^Width, the multiplicative *)
(* and additive constants are the low bits of the source's constants, and  *)
(* the shift distances are scaled by Width/64.                             *)
(***************************************************************************)
EXTENDS Integers, Sequences, FiniteSets, Bags, TLC

VARIABLES
    st,        \* LSH: "start" before LshParams::new succeeded, "ready" after with_params
    params,    \* LSH: LshIndex.params (LshParams {bands, rows_per_band})
    bands,     \* LSH: LshIndex.bands, one map key -> Vec<u32> per band
    hist,      \* LSH: the successful insert calls so far, <<id, signature>> in call order
    op,        \* LSH: the last call made and its arguments
    ret,       \* LSH: what the last call returned to its caller
    k,         \* KMV: KmvSketch.k
    heap,      \* KMV: KmvSketch.heap, the BinaryHeap<Reverse<u64>> as a bag of values
    seen,      \* KMV: the sequence of values passed to update so far
    kpc,       \* KMV: "open" until finish consumed the sketch, then "finished"
    ksig,      \* KMV: the signature returned by finish
    margs,     \* MinHash: the arguments MinHash::new was called with
    seeds,     \* MinHash: MinHash.seeds
    mins,      \* MinHash: MinHash.mins
    mseen,     \* MinHash: the sequence of values passed to update so far
    mpc,       \* MinHash: "open" until finish consumed the sketch, then "finished"
    msig,      \* MinHash: the signature returned by finish
    epc,       \* example: position of build_and_query.rs main
    todo,      \* example: tokens of the current token set not yet fed to the sketch
    sig_a,     \* example: signature of token set A
    sig_b,     \* example: signature of token set B
    jac        \* example: the estimate jaccard_from_signatures(&sig_a, &sig_b) returned

vars == <<st, params, bands, hist, op, ret, k, heap, seen, kpc, ksig,
          margs, seeds, mins, mseen, mpc, msig, epc, todo, sig_a, sig_b, jac>>
lshVars == <<st, params, bands, hist, op, ret>>
kmvVars == <<k, heap, seen, kpc, ksig>>
mhVars  == <<margs, seeds, mins, mseen, mpc, msig>>
exVars  == <<epc, todo, sig_a, sig_b, jac>>

(***************************************************************************)
(* Bounds of the model.                                                    *)
(***************************************************************************)
Width      == 8   \* bits of a machine word in the model
MaxBands   == 2   \* LshParams::new is tried with bands in 0..MaxBands
MaxRows    == 2   \* ... and rows_per_band in 0..MaxRows
MaxId      == 1   \* ids passed to insert are 0..MaxId
MaxInserts == 2   \* successful inserts per run
MaxK       == 3   \* KmvSketch::new is called with k in 0..MaxK
MaxVal     == 3   \* values passed to KmvSketch::update are 1..MaxVal
MaxUpdates == 4   \* updates per sketch
MaxHashes  == 2   \* MinHash::new is called with num_hashes in 0..MaxHashes
MaxSigLen  == 3   \* jaccard_from_signatures is called with signatures of 0..MaxSigLen elements

(***************************************************************************)
(* Program constants (their low 16 bits; reduced modulo 2^Width on use).   *)
(***************************************************************************)
GOLDEN_GAMMA == 31765   \* 0x9E3779B97F4A7C15 & 0xFFFF
MIX_MUL1     == 58809   \* 0xBF58476D1CE4E5B9 & 0xFFFF
MIX_MUL2     == 4587    \* 0x94D049BB133111EB & 0xFFFF
BAND_SALT    == 48879   \* 0xDEADBEEFDEADBEEF & 0xFFFF
INDEX_SEED   == 64222   \* 0xC0FFEEFADE & 0xFFFF
SHIFT1       == 30
SHIFT2       == 27
SHIFT3       == 31
WORD_BITS    == 64

Pow2(n) == 2 ^ n
Modulus == Pow2(Width)
Word    == 0 .. (Modulus - 1)
U64_MAX == Modulus - 1
Wrap(x) == x % Modulus
ShiftOf(s) == (s * Width) \div WORD_BITS
Shr(z, s) == z \div Pow2(ShiftOf(s))

Min2(a, b) == IF a <= b THEN a ELSE b
Max2(a, b) == IF a >= b THEN a ELSE b

RECURSIVE XorBits(_, _, _)
XorBits(a, b, n) ==
    IF n = 0 THEN 0
    ELSE ((a + b) % 2) + 2 * XorBits(a \div 2, b \div 2, n - 1)

\* the ^ operator on words, tabulated once
XorTab == [a \in Word |-> [b \in Word |-> XorBits(a, b, Width)]]
Xor(a, b) == XorTab[Wrap(a)][Wrap(b)]

splitmix64(x0) ==
    LET x  == Wrap(x0 + GOLDEN_GAMMA)
        z1 == Wrap(Xor(x, Shr(x, SHIFT1)) * Wrap(MIX_MUL1))
        z2 == Wrap(Xor(z1, Shr(z1, SHIFT2)) * Wrap(MIX_MUL2))
    IN  Xor(z2, Shr(z2, SHIFT3))

SplitTab == [x \in Word |-> splitmix64(x)]

mix_with_seed(x, seed) == SplitTab[Xor(x, seed)]

RECURSIVE HashFold(_, _, _)
HashFold(acc, chunk, i) ==
    IF i > Len(chunk) THEN acc
    ELSE HashFold(SplitTab[Xor(acc, chunk[i])], chunk, i + 1)

hash_band(chunk, seed) == HashFold(Xor(seed, BAND_SALT), chunk, 1)

(***************************************************************************)
(* lsh.rs: LshParams and LshIndex.                                         *)
(***************************************************************************)
NoParams == [bands |-> 0, rows_per_band |-> 0]
NoOp     == [name |-> "none", id |-> 0, sig |-> <<>>, min |-> 0, b |-> 0, r |-> 0]
NoRet    == [kind |-> "none", sig_len |-> 0, need |-> 0, out |-> <<>>]

OkRet             == [NoRet EXCEPT !.kind = "ok"]
ZeroErr           == [NoRet EXCEPT !.kind = "LshParamsError::Zero"]
ShortSignature(n, need) ==
    [NoRet EXCEPT !.kind = "LshError::ShortSignature", !.sig_len = n, !.need = need]
PanicRet          == [NoRet EXCEPT !.kind = "panic"]
Candidates(out)   == [NoRet EXCEPT !.kind = "candidates", !.out = out]

\* mutant of LshParams_new: the error needs both arguments to be zero
LshParams_new_both(b, r) ==
    IF b = 0 /\ r = 0 THEN [ok |-> FALSE, params |-> NoParams]
    ELSE [ok |-> TRUE, params |-> [bands |-> b, rows_per_band |-> r]]

\* LshParams::new: the parameters, or the Zero error
LshParams_new(b, r) ==
    IF b = 0 \/ r = 0 THEN [ok |-> FALSE, params |-> NoParams]
    ELSE [ok |-> TRUE, params |-> [bands |-> b, rows_per_band |-> r]]

signature_len(p) == p.bands * p.rows_per_band

EmptyMap == [key \in {} |-> 0]

\* LshIndex::with_params: one empty map per band (bands are numbered from 0)
with_params(p) == [b \in 0 .. (p.bands - 1) |-> EmptyMap]

\* a Vec<u32>: its elements and its capacity
EmptyVec == [buf |-> <<>>, cap |-> 0]

\* mutant of VecPush: the element is put at the front (insert(0, x))
VecPush_front(v, x) ==
    [buf |-> <<x>> \o v.buf,
     cap |-> IF Len(v.buf) < v.cap THEN v.cap
             ELSE Max2(Max2(2 * v.cap, Len(v.buf) + 1), 4)]

\* Vec::push, growing a full buffer to max(2*cap, len+1, 4)
VecPush(v, x) ==
    [buf |-> Append(v.buf, x),
     cap |-> IF Len(v.buf) < v.cap THEN v.cap
             ELSE Max2(Max2(2 * v.cap, Len(v.buf) + 1), 4)]

\* Vec::shrink_to_fit
ShrinkToFit(v) == [buf |-> v.buf, cap |-> Len(v.buf)]

\* mutant of EntryPush: the bucket is overwritten (map.insert(key, vec![id]))
EntryPush_overwrite(m, key, id) ==
    [x \in (DOMAIN m) \cup {key} |-> IF x = key THEN VecPush(EmptyVec, id) ELSE m[x]]

\* map.entry(key).or_default().push(id)
EntryPush(m, key, id) ==
    [x \in (DOMAIN m) \cup {key} |->
        IF x = key
        THEN VecPush(IF key \in DOMAIN m THEN m[key] ELSE EmptyVec, id)
        ELSE m[x]]

\* mutant of BandSlice: the last band's slice runs to the end (&signature[start..])
BandSlice_open_end(p, signature, b) ==
    SubSeq(signature, b * p.rows_per_band + 1,
           IF b = p.bands - 1 THEN Len(signature)
           ELSE b * p.rows_per_band + p.rows_per_band)

\* &signature[start..end] of band b
BandSlice(p, signature, b) ==
    SubSeq(signature, b * p.rows_per_band + 1, b * p.rows_per_band + p.rows_per_band)

\* mutant of BandKey: the whole signature is hashed, not the band's slice
BandKey_whole(p, signature, b) == hash_band(signature, Xor(b, INDEX_SEED))

\* the bucket key of band b
BandKey(p, signature, b) ==
    hash_band(BandSlice(p, signature, b), Xor(b, INDEX_SEED))

RECURSIVE InsertLoop(_, _, _, _, _)
InsertLoop(bs, p, id, signature, b) ==
    IF b >= p.bands THEN bs
    ELSE InsertLoop([bs EXCEPT ![b] = EntryPush(@, BandKey(p, signature, b), id)],
                    p, id, signature, b + 1)

\* mutant of insert: the length is checked after the loop, which has filled the
\* bands whose slice lies inside the signature
RECURSIVE InsertLoopWhileFits(_, _, _, _, _)
InsertLoopWhileFits(bs, p, id, signature, b) ==
    IF b >= p.bands \/ (b + 1) * p.rows_per_band > Len(signature) THEN bs
    ELSE InsertLoopWhileFits(
            [bs EXCEPT ![b] = EntryPush(@, BandKey(p, signature, b), id)],
            p, id, signature, b + 1)

insert_partial(bs, p, id, signature) ==
    LET need == signature_len(p) IN
    [ret   |-> IF Len(signature) < need
               THEN ShortSignature(Len(signature), need) ELSE OkRet,
     bands |-> InsertLoopWhileFits(bs, p, id, signature, 0)]

\* LshIndex::insert: the result and the bucket maps after the call
insert(bs, p, id, signature) ==
    LET need == signature_len(p) IN
    IF Len(signature) < need
    THEN [ret |-> ShortSignature(Len(signature), need), bands |-> bs]
    ELSE [ret |-> OkRet, bands |-> InsertLoop(bs, p, id, signature, 0)]

\* mutant of build: the buckets are also sorted and deduplicated
RECURSIVE SortedSeqOf(_)
SortedSeqOf(S) ==
    IF S = {} THEN <<>>
    ELSE LET m == CHOOSE x \in S : \A y \in S : x <= y
         IN  <<m>> \o SortedSeqOf(S \ {m})

build_dedup(bs) ==
    [b \in DOMAIN bs |->
        [key \in DOMAIN bs[b] |->
            LET u == SortedSeqOf({bs[b][key].buf[i] : i \in DOMAIN bs[b][key].buf})
            IN  [buf |-> u, cap |-> Len(u)]]]

\* LshIndex::build: every bucket of every map is shrunk to fit
build(bs) == [b \in DOMAIN bs |-> [key \in DOMAIN bs[b] |-> ShrinkToFit(bs[b][key])]]

\* *counts.entry(id).or_insert(0) += 1
CountBump(counts, id) ==
    [x \in (DOMAIN counts) \cup {id} |->
        IF x = id THEN (IF id \in DOMAIN counts THEN counts[id] ELSE 0) + 1
        ELSE counts[x]]

\* mutant of CountIds: an id is counted once per bucket, however often it occurs
RECURSIVE CountIds_once(_, _, _)
CountIds_once(counts, ids, i) ==
    IF i > Len(ids) THEN counts
    ELSE CountIds_once(IF \E j \in 1 .. (i - 1) : ids[j] = ids[i]
                       THEN counts ELSE CountBump(counts, ids[i]),
                       ids, i + 1)

RECURSIVE CountIds(_, _, _)
CountIds(counts, ids, i) ==
    IF i > Len(ids) THEN counts
    ELSE CountIds(CountBump(counts, ids[i]), ids, i + 1)

RECURSIVE CountLoop(_, _, _, _, _)
CountLoop(counts, bs, p, signature, b) ==
    IF b >= p.bands THEN counts
    ELSE LET key == BandKey(p, signature, b) IN
         CountLoop(IF key \in DOMAIN bs[b]
                   THEN CountIds(counts, bs[b][key].buf, 1)
                   ELSE counts,
                   bs, p, signature, b + 1)

\* mutant of CmpLess: the counts are compared in ascending order
CmpLess_ascending(a, b) == a[2] < b[2] \/ (a[2] = b[2] /\ a[1] < b[1])

\* the comparator of sort_unstable_by: b.1.cmp(&a.1).then_with(|| a.0.cmp(&b.0))
CmpLess(a, b) == a[2] > b[2] \/ (a[2] = b[2] /\ a[1] < b[1])

\* mutant of sort_unstable_by: the output is left in the order it was emitted
sort_none(s) == s

RECURSIVE SortInsert(_, _, _)
SortInsert(s, e, i) ==
    IF i > Len(s) THEN Append(s, e)
    ELSE IF CmpLess(e, s[i])
         THEN SubSeq(s, 1, i - 1) \o <<e>> \o SubSeq(s, i, Len(s))
         ELSE SortInsert(s, e, i + 1)

RECURSIVE SortFrom(_, _, _)
SortFrom(acc, s, i) ==
    IF i > Len(s) THEN acc ELSE SortFrom(SortInsert(acc, s[i], 1), s, i + 1)

\* out.sort_unstable_by(...)
sort_unstable_by(s) == SortFrom(<<>>, s, 1)

\* for (id, c) in counts, in the map's iteration order ord: keep c >= min_collisions
RECURSIVE EmitLoop(_, _, _, _, _)
EmitLoop(out, counts, min_collisions, ord, i) ==
    IF i > Len(ord) THEN out
    ELSE EmitLoop(IF counts[ord[i]] >= min_collisions
                  THEN Append(out, <<ord[i], counts[ord[i]]>>)
                  ELSE out,
                  counts, min_collisions, ord, i + 1)

\* the orders in which a hash map holding the keys S may be iterated
IterOrders(S) ==
    {s \in [1 .. Cardinality(S) -> S] : \A i, j \in DOMAIN s : s[i] = s[j] => i = j}

QueryCounts(bs, p, signature) == CountLoop(EmptyMap, bs, p, signature, 0)

\* LshIndex::query_candidates past its assertion, the counts iterated in order ord
QueryOut(counts, min_collisions, ord) ==
    sort_unstable_by(EmitLoop(<<>>, counts, min_collisions, ord, 1))

\* LshIndex::query_candidates: every result the call can produce
query_candidates(bs, p, signature, min_collisions) ==
    IF Len(signature) < signature_len(p)
    THEN {PanicRet}
    ELSE LET counts == QueryCounts(bs, p, signature) IN
         {Candidates(QueryOut(counts, min_collisions, ord)) :
            ord \in IterOrders(DOMAIN counts)}

(***************************************************************************)
(* The inputs of the LSH calls.  Signatures are those of tests/basic.rs:   *)
(* of length bands * rows_per_band, all elements 1 or all 1 but one        *)
(* element 2; besides these the all-1 signature with one more element      *)
(* (1 or 2), the all-1 signature one element short, and the empty one.     *)
(***************************************************************************)
SigsOfLen(n) ==
    {[i \in 1 .. n |-> IF i = pos THEN 2 ELSE 1] : pos \in 0 .. n}

AllOnes(n) == [i \in 1 .. n |-> 1]

Sigs(p) ==
    LET need == signature_len(p) IN
    SigsOfLen(need)
      \cup {Append(AllOnes(need), v) : v \in {1, 2}}
      \cup {AllOnes(Max2(0, need - 1)), <<>>}

Ids     == 0 .. MaxId
Mins(p) == 0 .. (p.bands + 1)

(***************************************************************************)
(* sketch.rs: jaccard_from_signatures.  An f64 quotient of two small       *)
(* integers is modelled as the fraction in lowest terms: two such          *)
(* quotients are the same f64 exactly when the fractions are equal.        *)
(***************************************************************************)
RECURSIVE GCD(_, _)
GCD(a, b) == IF b = 0 THEN a ELSE GCD(b, a % b)

\* eq as f64 / n as f64, n > 0
F64Div(eq, n) == [num |-> eq \div GCD(eq, n), den |-> n \div GCD(eq, n)]
F64Zero == [num |-> 0, den |-> 1]
F64One  == [num |-> 1, den |-> 1]

\* the loop counting the positions i < n with a[i] == b[i]
RECURSIVE EqLoop(_, _, _, _, _)
EqLoop(eq, a, b, n, i) ==
    IF i > n THEN eq
    ELSE EqLoop(IF a[i] = b[i] THEN eq + 1 ELSE eq, a, b, n, i + 1)

\* mutant of jaccard_from_signatures: the count is divided by a.len()
jaccard_by_len_a(a, b) ==
    LET n == Min2(Len(a), Len(b)) IN
    IF n = 0 THEN F64Zero ELSE F64Div(EqLoop(0, a, b, n, 1), Len(a))

\* jaccard_from_signatures(a, b)
jaccard_from_signatures(a, b) ==
    LET n == Min2(Len(a), Len(b)) IN
    IF n = 0 THEN F64Zero ELSE F64Div(EqLoop(0, a, b, n, 1), n)

\* sketches and example idle (the state of the parts a specification does not run)
KmvIdle == k = 0 /\ heap = EmptyBag /\ seen = <<>> /\ kpc = "idle" /\ ksig = <<>>
NoArgs  == [num_hashes |-> 0, seed0 |-> 0]
MhIdle  == margs = NoArgs /\ seeds = <<>> /\ mins = <<>> /\ mseen = <<>> /\ mpc = "idle" /\ msig = <<>>
ExIdle  == epc = "idle" /\ todo = {} /\ sig_a = <<>> /\ sig_b = <<>> /\ jac = F64Zero
LshIdle == /\ st = "idle" /\ params = NoParams /\ bands = <<>> /\ hist = <<>>
           /\ op = NoOp /\ ret = NoRet

LshInit ==
    /\ st = "start" /\ params = NoParams /\ bands = <<>> /\ hist = <<>>
    /\ op = NoOp /\ ret = NoRet

\* LshParams::new(b, r), then LshIndex::with_params on success
LshNew(b, r) ==
    /\ st = "start"
    /\ LET res == LshParams_new(b, r) IN
        /\ op' = [NoOp EXCEPT !.name = "new", !.b = b, !.r = r]
        /\ IF res.ok
           THEN /\ params' = res.params
                /\ bands' = with_params(res.params)
                /\ st' = "ready"
                /\ ret' = OkRet
           ELSE /\ ret' = ZeroErr
                /\ UNCHANGED <<params, bands, st>>
    /\ UNCHANGED <<hist, kmvVars, mhVars, exVars>>

\* index.insert(id, &signature)
Insert(id, signature) ==
    /\ st = "ready"
    /\ Len(signature) >= signature_len(params) => Len(hist) < MaxInserts
    /\ LET res == insert(bands, params, id, signature) IN
        /\ bands' = res.bands
        /\ ret' = res.ret
        /\ hist' = IF res.ret.kind = "ok" THEN Append(hist, <<id, signature>>) ELSE hist
    /\ op' = [NoOp EXCEPT !.name = "insert", !.id = id, !.sig = signature]
    /\ UNCHANGED <<st, params, kmvVars, mhVars, exVars>>

\* index.build()
Build ==
    /\ st = "ready"
    /\ bands' = build(bands)
    /\ op' = [NoOp EXCEPT !.name = "build"]
    /\ ret' = OkRet
    /\ UNCHANGED <<st, params, hist, kmvVars, mhVars, exVars>>

\* index.query_candidates(&signature, min_collisions); a failed assertion aborts
Query(signature, min_collisions) ==
    /\ st = "ready"
    /\ ret' \in query_candidates(bands, params, signature, min_collisions)
    /\ st' = IF ret'.kind = "panic" THEN "aborted" ELSE st
    /\ op' = [NoOp EXCEPT !.name = "query", !.sig = signature, !.min = min_collisions]
    /\ UNCHANGED <<params, bands, hist, kmvVars, mhVars, exVars>>

Init == LshInit /\ KmvIdle /\ MhIdle /\ ExIdle

Next ==
    \/ \E b \in 0 .. MaxBands, r \in 0 .. MaxRows : LshNew(b, r)
    \/ \E id \in Ids, s \in Sigs(params) : Insert(id, s)
    \/ Build
    \/ \E s \in Sigs(params), m \in Mins(params) : Query(s, m)

Spec == Init /\ [][Next]_vars

(***************************************************************************)
(* Properties of the LSH index (specification Spec).                       *)
(***************************************************************************)
\* the id lists of every bucket of every band, capacities left out
Contents(bs) == [b \in DOMAIN bs |-> [key \in DOMAIN bs[b] |-> bs[b][key].buf]]

\* how many entries of the buckets matched by signature hold id
Occurrences(bs, p, signature, id) ==
    Cardinality({bi \in UNION {{<<b, i>> : i \in
                       (IF BandKey(p, signature, b) \in DOMAIN bs[b]
                        THEN DOMAIN bs[b][BandKey(p, signature, b)].buf ELSE {})} :
                    b \in DOMAIN bs} :
                  bs[bi[1]][BandKey(p, signature, bi[1])].buf[bi[2]] = id})

TimesInserted(id) == Cardinality({i \in DOMAIN hist : hist[i][1] = id})

\* C1: an insert with a signature shorter than bands * rows_per_band returns
\* ShortSignature {sig_len: len(sig), need: bands * rows_per_band} and leaves
\* every band's bucket map as it was before the call.
C1_ShortInsertRejected ==
    [][(op'.name = "insert" /\ Len(op'.sig) < params.bands * params.rows_per_band)
        => /\ ret'.kind = "LshError::ShortSignature"
           /\ ret'.sig_len = Len(op'.sig)
           /\ ret'.need = params.bands * params.rows_per_band
           /\ bands' = bands
           /\ hist' = hist]_vars

C1_Witness ==
    /\ op.name = "insert"
    /\ ret.kind = "LshError::ShortSignature"
    /\ Len(op.sig) > 0
    /\ Len(hist) > 0

\* C2: a query with a signature shorter than bands * rows_per_band returns the
\* ShortSignature error of insert to its caller; it never panics.
C2_ShortQueryRecoverable ==
    (op.name = "query" /\ Len(op.sig) < signature_len(params))
        => ret = ShortSignature(Len(op.sig), signature_len(params))

\* C4: when id X was inserted exactly once, with signature S, a query with S and
\* min_collisions = bands returns X with collision count exactly bands.
C4_RoundTrip ==
    (op.name = "query" /\ ret.kind = "candidates" /\ op.min = params.bands)
        => \A i \in DOMAIN hist :
              (TimesInserted(hist[i][1]) = 1 /\ hist[i][2] = op.sig)
                 => /\ \E j \in DOMAIN ret.out : ret.out[j] = <<hist[i][1], params.bands>>
                    /\ \A j \in DOMAIN ret.out :
                          ret.out[j][1] = hist[i][1] => ret.out[j][2] = params.bands

\* a query for a signature under which two different ids were inserted once each
C4_Witness ==
    /\ op.name = "query" /\ ret.kind = "candidates" /\ op.min = params.bands
    /\ params.bands > 1
    /\ Len(hist) = 2
    /\ hist[1][1] # hist[2][1]
    /\ hist[1][2] = op.sig
    /\ hist[2][2] = op.sig

\* C6: a query returns each id at most once, exactly the ids whose collision count
\* (at least one collision) is >= min_collisions, each with that count, ordered by
\* descending count and then ascending id, whatever the iteration order of the maps.
C6_QueryResult ==
    (op.name = "query" /\ ret.kind = "candidates")
        => /\ \A i, j \in DOMAIN ret.out : ret.out[i][1] = ret.out[j][1] => i = j
           /\ {ret.out[i] : i \in DOMAIN ret.out}
                = {<<id, Occurrences(bands, params, op.sig, id)>> :
                     id \in {x \in Ids : /\ Occurrences(bands, params, op.sig, x) >= 1
                                         /\ Occurrences(bands, params, op.sig, x) >= op.min}}
           /\ \A i, j \in DOMAIN ret.out :
                 i < j => \/ ret.out[i][2] > ret.out[j][2]
                          \/ (ret.out[i][2] = ret.out[j][2] /\ ret.out[i][1] < ret.out[j][1])
           /\ query_candidates(bands, params, op.sig, op.min) = {ret}

C6_Witness ==
    /\ op.name = "query" /\ ret.kind = "candidates"
    /\ op.min >= 1
    /\ Len(ret.out) = 2
    /\ ret.out[1][1] > ret.out[2][1]
    /\ ret.out[1][2] > ret.out[2][2]

\* C7: a build call leaves the bucket contents and the result of every query
\* unchanged, wherever it is made.
C7_BuildNoEffect ==
    [][op'.name = "build"
        => /\ Contents(bands') = Contents(bands)
           /\ hist' = hist /\ params' = params /\ st' = st
           /\ \A s \in Sigs(params), m \in Mins(params) :
                 query_candidates(bands', params', s, m)
                    = query_candidates(bands, params, s, m)]_vars

\* a query that finds candidates after a build made between two inserts: one
\* bucket was shrunk, another was filled afterwards
C7_Witness ==
    /\ op.name = "query" /\ Len(ret.out) >= 1
    /\ \E b \in DOMAIN bands : \E key \in DOMAIN bands[b] :
          bands[b][key].cap = Len(bands[b][key].buf)
    /\ \E b \in DOMAIN bands : \E key \in DOMAIN bands[b] :
          bands[b][key].cap > Len(bands[b][key].buf)

(***************************************************************************)
(* kmv.rs: KmvSketch.  The BinaryHeap<Reverse<u64>> is a bag of values;    *)
(* BinaryHeap is a max-heap of its element type, here Reverse<u64>.        *)
(***************************************************************************)
\* Reverse(a) <= Reverse(b)
ReverseLe(a, b) == b <= a

HeapLen(h)     == BagCardinality(h)
HeapPush(h, v) == h (+) SetToBag({v})
\* BinaryHeap::peek: the greatest element in the order of Reverse<u64>
HeapPeek(h)    == CHOOSE v \in BagToSet(h) : \A w \in BagToSet(h) : ReverseLe(w, v)
\* BinaryHeap::pop: removes the element peek shows
HeapPop(h)     == h (-) SetToBag({HeapPeek(h)})

\* mutant of KmvSketch_update: the heap is not bounded by k
KmvSketch_update_unbounded(h, kk, x) == HeapPush(h, x)

\* mutant of KmvSketch_update: a value already retained is not retained again
KmvSketch_update_dedup(h, kk, x) ==
    IF x \in BagToSet(h) THEN h
    ELSE IF HeapLen(h) < kk THEN HeapPush(h, x)
    ELSE IF HeapLen(h) = 0 THEN h
    ELSE IF x < HeapPeek(h) THEN HeapPush(HeapPop(h), x)
    ELSE h

\* KmvSketch::update(h): the heap after the call
KmvSketch_update(h, kk, x) ==
    IF HeapLen(h) < kk THEN HeapPush(h, x)
    ELSE IF HeapLen(h) = 0 THEN h                     \* peek() is None
    ELSE IF x < HeapPeek(h) THEN HeapPush(HeapPop(h), x)
    ELSE h

\* while let Some(Reverse(v)) = self.heap.pop() { out.push(v) }
RECURSIVE PopAll(_, _)
PopAll(out, h) ==
    IF HeapLen(h) = 0 THEN out ELSE PopAll(Append(out, HeapPeek(h)), HeapPop(h))

RECURSIVE AscInsert(_, _, _)
AscInsert(s, e, i) ==
    IF i > Len(s) THEN Append(s, e)
    ELSE IF e < s[i]
         THEN SubSeq(s, 1, i - 1) \o <<e>> \o SubSeq(s, i, Len(s))
         ELSE AscInsert(s, e, i + 1)

RECURSIVE AscFrom(_, _, _)
AscFrom(acc, s, i) ==
    IF i > Len(s) THEN acc ELSE AscFrom(AscInsert(acc, s[i], 1), s, i + 1)

\* out.sort_unstable()
sort_unstable(s) == AscFrom(<<>>, s, 1)

\* KmvSketch::finish
KmvSketch_finish(h) == sort_unstable(PopAll(<<>>, h))

KmvVals == 1 .. MaxVal

\* KmvSketch::new(k)
KmvInit ==
    /\ k \in 0 .. MaxK
    /\ heap = EmptyBag /\ seen = <<>> /\ kpc = "open" /\ ksig = <<>>

\* sketch.update(x)
KmvUpdate(x) ==
    /\ kpc = "open"
    /\ Len(seen) < MaxUpdates
    /\ heap' = KmvSketch_update(heap, k, x)
    /\ seen' = Append(seen, x)
    /\ UNCHANGED <<k, kpc, ksig, lshVars, mhVars, exVars>>

\* sketch.finish(), which consumes the sketch
KmvFinish ==
    /\ kpc = "open"
    /\ ksig' = KmvSketch_finish(heap)
    /\ heap' = EmptyBag
    /\ kpc' = "finished"
    /\ UNCHANGED <<k, seen, lshVars, mhVars, exVars>>

InitKmv == KmvInit /\ LshIdle /\ MhIdle /\ ExIdle
NextKmv == (\E x \in KmvVals : KmvUpdate(x)) \/ KmvFinish
SpecKmv == InitKmv /\ [][NextKmv]_vars

(***************************************************************************)
(* Properties of the KMV sketch (specification SpecKmv).                   *)
(***************************************************************************)
RECURSIVE SeqToBag(_)
SeqToBag(s) == IF s = <<>> THEN EmptyBag ELSE SetToBag({Head(s)}) (+) SeqToBag(Tail(s))

Range(s) == {s[i] : i \in DOMAIN s}

\* the values the sketch retains: in its heap, or in the signature finish returned
Retained == IF kpc = "finished" THEN SeqToBag(ksig) ELSE heap

\* C3: for k >= 1 the retained multiset is the k smallest values of the update
\* sequence (all of them when fewer than k were seen): every retained value is <=
\* every value observed but not retained.
C3_KSmallestRetained ==
    (kpc \in {"open", "finished"} /\ k >= 1)
        => /\ Retained \sqsubseteq SeqToBag(seen)
           /\ BagCardinality(Retained) = Min2(k, Len(seen))
           /\ \A a \in BagToSet(Retained) :
                 \A b \in BagToSet(SeqToBag(seen) (-) Retained) : a <= b

\* C8 as claimed: the signature has min(k, number of distinct updated values) elements
C8_LenDistinct ==
    kpc = "finished" => Len(ksig) = Min2(k, Cardinality(Range(seen)))

\* C8 as amended: the signature returned by finish has min(k, number of update
\* calls) elements, repeated values counted each time.
C8_LenUpdates ==
    kpc = "finished" => Len(ksig) = Min2(k, Len(seen))

C8_Witness ==
    /\ kpc = "finished"
    /\ k >= 2
    /\ Len(seen) > k
    /\ Cardinality(Range(seen)) < Len(ksig)

\* C9: the signature returned by finish is sorted in non-decreasing order and has
\* at most k elements.
C9_SortedAtMostK ==
    kpc = "finished"
        => /\ \A i, j \in DOMAIN ksig : i <= j => ksig[i] <= ksig[j]
           /\ Len(ksig) <= k

C9_Witness ==
    /\ kpc = "finished"
    /\ k >= 2
    /\ Len(ksig) = k
    /\ Len(seen) > k
    /\ seen[1] > seen[2]
    /\ ksig[1] < ksig[2]

(***************************************************************************)
(* minhash.rs: MinHash.                                                    *)
(***************************************************************************)
\* the seeds pushed by the loop of MinHash::new: s = splitmix64(s); seeds.push(s)
RECURSIVE SeedChain(_, _, _)
SeedChain(out, s, n) ==
    IF n = 0 THEN out
    ELSE SeedChain(Append(out, SplitTab[Wrap(s)]), SplitTab[Wrap(s)], n - 1)

\* mutant of MinHash_new: the minima start at 0 (vec![0; num_hashes])
MinHash_new_zero(num_hashes, seed0) ==
    [seeds |-> SeedChain(<<>>, seed0, num_hashes),
     mins  |-> [i \in 1 .. num_hashes |-> 0]]

\* MinHash::new(num_hashes, seed0)
MinHash_new(num_hashes, seed0) ==
    [seeds |-> SeedChain(<<>>, seed0, num_hashes),
     mins  |-> [i \in 1 .. num_hashes |-> U64_MAX]]

\* mutant of UpdateLoop: the loop ends at the first slot that x does not lower
RECURSIVE UpdateLoop_early_exit(_, _, _, _)
UpdateLoop_early_exit(mn, sd, x, i) ==
    IF i > Len(sd) THEN mn
    ELSE LET h == mix_with_seed(x, sd[i]) IN
         IF h < mn[i]
         THEN UpdateLoop_early_exit([mn EXCEPT ![i] = h], sd, x, i + 1)
         ELSE mn

\* the loop of MinHash::update over the slots i (numbered from 1 here)
RECURSIVE UpdateLoop(_, _, _, _)
UpdateLoop(mn, sd, x, i) ==
    IF i > Len(sd) THEN mn
    ELSE LET h == mix_with_seed(x, sd[i]) IN
         UpdateLoop(IF h < mn[i] THEN [mn EXCEPT ![i] = h] ELSE mn, sd, x, i + 1)

\* MinHash::update(x): the minima after the call
MinHash_update(mn, sd, x) == UpdateLoop(mn, sd, x, 1)

\* MinHash::finish
MinHash_finish(mn) == mn

\* the starting seeds tried: 0 and the 12345 of tests/basic.rs
Seed0s == {0, Wrap(12345)}
MhVals == 1 .. MaxVal

MhInit ==
    /\ margs \in [num_hashes : 0 .. MaxHashes, seed0 : Seed0s]
    /\ seeds = MinHash_new(margs.num_hashes, margs.seed0).seeds
    /\ mins = MinHash_new(margs.num_hashes, margs.seed0).mins
    /\ mseen = <<>> /\ mpc = "open" /\ msig = <<>>

\* mh.update(x)
MhUpdate(x) ==
    /\ mpc = "open"
    /\ Len(mseen) < MaxUpdates
    /\ mins' = MinHash_update(mins, seeds, x)
    /\ mseen' = Append(mseen, x)
    /\ UNCHANGED <<margs, seeds, mpc, msig, lshVars, kmvVars, exVars>>

\* mh.finish(), which consumes the sketch
MhFinish ==
    /\ mpc = "open"
    /\ msig' = MinHash_finish(mins)
    /\ mpc' = "finished"
    /\ UNCHANGED <<margs, seeds, mins, mseen, lshVars, kmvVars, exVars>>

InitMinHash == MhInit /\ LshIdle /\ KmvIdle /\ ExIdle
NextMinHash == (\E x \in MhVals : MhUpdate(x)) \/ MhFinish
SpecMinHash == InitMinHash /\ [][NextMinHash]_vars

(***************************************************************************)
(* Properties of MinHash (specification SpecMinHash).                      *)
(***************************************************************************)
\* C10: finish returns exactly num_hashes elements, whatever the number of
\* updates; with no update every element is the maximum word value.
C10_MinHashLength ==
    mpc = "finished"
        => /\ Len(msig) = margs.num_hashes
           /\ mseen = <<>> => \A i \in DOMAIN msig : msig[i] = U64_MAX

C10_Witness ==
    /\ mpc = "finished"
    /\ mseen = <<>>
    /\ margs.num_hashes >= 2
    /\ Len(msig) >= 2

(***************************************************************************)
(* examples/build_and_query.rs main, and the Quick Start of lib.rs: two    *)
(* KMV(128) sketches over the token sets A and B, inserted under ids 0 and *)
(* 1 into a 32 x 4 index, which is then queried with A's signature.  The   *)
(* tokens of a set are fed in any order; the result of insert is unwrapped *)
(* (the example) or dropped (the Quick Start).                             *)
(***************************************************************************)
EX_K     == 128
EX_BANDS == 32
EX_ROWS  == 4
TokensA  == {11, 12, 13, 100, 101, 102, 1000, 2000}
TokensB  == {12, 13, 14, 101, 102, 103, 1000, 3000}

ExInit ==
    /\ epc = "sketch_a" /\ todo = TokensA /\ sig_a = <<>> /\ sig_b = <<>>
    /\ jac = F64Zero
    /\ k = EX_K /\ heap = EmptyBag /\ seen = <<>> /\ kpc = "open" /\ ksig = <<>>
    /\ LshInit

\* sa.update(*h) / sb.update(*h)
ExUpdate(x) ==
    /\ epc \in {"sketch_a", "sketch_b"}
    /\ x \in todo
    /\ heap' = KmvSketch_update(heap, k, x)
    /\ todo' = todo \ {x}
    /\ UNCHANGED <<epc, sig_a, sig_b, k, seen, kpc, ksig, lshVars, mhVars, jac>>

\* let sig_a = sa.finish(); let mut sb = KmvSketch::new(k)
ExFinishA ==
    /\ epc = "sketch_a" /\ todo = {}
    /\ sig_a' = KmvSketch_finish(heap)
    /\ heap' = EmptyBag
    /\ todo' = TokensB
    /\ epc' = "sketch_b"
    /\ UNCHANGED <<sig_b, k, seen, kpc, ksig, lshVars, mhVars, jac>>

\* let sig_b = sb.finish()
ExFinishB ==
    /\ epc = "sketch_b" /\ todo = {}
    /\ sig_b' = KmvSketch_finish(heap)
    /\ heap' = EmptyBag
    /\ epc' = "params"
    /\ UNCHANGED <<todo, sig_a, k, seen, kpc, ksig, lshVars, mhVars, jac>>

\* LshParams::new(32, 4).unwrap(); LshIndex::with_params(params)
ExParams ==
    /\ epc = "params"
    /\ LET res == LshParams_new(EX_BANDS, EX_ROWS) IN
        /\ params' = res.params
        /\ bands' = with_params(res.params)
        /\ st' = "ready"
        /\ ret' = OkRet
        /\ op' = [NoOp EXCEPT !.name = "new", !.b = EX_BANDS, !.r = EX_ROWS]
        /\ epc' = IF res.ok THEN "insert_a" ELSE "panicked"
    /\ UNCHANGED <<hist, todo, sig_a, sig_b, kmvVars, mhVars, jac>>

\* index.insert(0, &sig_a) / index.insert(1, &sig_b), the Result unwrapped or dropped
ExInsert(unwrap) ==
    /\ epc \in {"insert_a", "insert_b"}
    /\ LET id        == IF epc = "insert_a" THEN 0 ELSE 1
           signature == IF epc = "insert_a" THEN sig_a ELSE sig_b
           res       == insert(bands, params, id, signature)
       IN /\ bands' = res.bands
          /\ ret' = res.ret
          /\ hist' = IF res.ret.kind = "ok" THEN Append(hist, <<id, signature>>) ELSE hist
          /\ op' = [NoOp EXCEPT !.name = "insert", !.id = id, !.sig = signature]
          /\ epc' = IF unwrap /\ res.ret.kind # "ok" THEN "panicked"
                    ELSE IF epc = "insert_a" THEN "insert_b" ELSE "build"
    /\ UNCHANGED <<st, params, todo, sig_a, sig_b, kmvVars, mhVars, jac>>

\* index.build()
ExBuild ==
    /\ epc = "build"
    /\ bands' = build(bands)
    /\ op' = [NoOp EXCEPT !.name = "build"]
    /\ ret' = OkRet
    /\ epc' = "query"
    /\ UNCHANGED <<st, params, hist, todo, sig_a, sig_b, kmvVars, mhVars, jac>>

\* let cands = index.query_candidates(&sig_a, 1)
ExQuery ==
    /\ epc = "query"
    /\ ret' \in query_candidates(bands, params, sig_a, 1)
    /\ op' = [NoOp EXCEPT !.name = "query", !.sig = sig_a, !.min = 1]
    /\ epc' = IF ret'.kind = "panic" THEN "panicked" ELSE "done"
    /\ UNCHANGED <<st, params, bands, hist, todo, sig_a, sig_b, kmvVars, mhVars, jac>>

InitExample == ExInit /\ MhIdle
NextExample ==
    \/ \E x \in TokensA \cup TokensB : ExUpdate(x)
    \/ ExFinishA
    \/ ExFinishB
    \/ ExParams
    \/ \E unwrap \in BOOLEAN : ExInsert(unwrap)
    \/ ExBuild
    \/ ExQuery
SpecExample == InitExample /\ [][NextExample]_vars

\* C5: in the end-to-end scenario both signatures are inserted (ids 0 and 1) and
\* query_candidates(sig_A, 1) returns a result that includes id 1 with count >= 1.
C5_EndToEnd ==
    epc \in {"done", "panicked"}
        => /\ epc = "done"
           /\ {hist[i][1] : i \in DOMAIN hist} = {0, 1}
           /\ ret.kind = "candidates"
           /\ \E j \in DOMAIN ret.out : ret.out[j][1] = 1 /\ ret.out[j][2] >= 1

(***************************************************************************)
(* Further properties of the LSH index (specification Spec).               *)
(***************************************************************************)
\* the band (numbered from 0) that position i (numbered from 1) lies in
BandOf(p, i) == (i - 1) \div p.rows_per_band

\* s1 and s2 have the same length and differ, if at all, inside one band
WithinOneBand(p, s1, s2) ==
    /\ Len(s1) = Len(s2)
    /\ \A i, j \in DOMAIN s1 :
          (s1[i] # s2[i] /\ s1[j] # s2[j]) => BandOf(p, i) = BandOf(p, j)

\* hist[i] and hist[j] are two signatures of length bands * rows_per_band that
\* differ only inside one band, each inserted once, under distinct ids
OneBandApart(i, j) ==
    /\ hist[i][1] # hist[j][1]
    /\ TimesInserted(hist[i][1]) = 1
    /\ TimesInserted(hist[j][1]) = 1
    /\ Len(hist[i][2]) = signature_len(params)
    /\ WithinOneBand(params, hist[i][2], hist[j][2])

\* C11 as claimed: whatever the number of bands, a query with one of two such
\* signatures and min_collisions = 1 returns the other id, with a count of at
\* least bands - 1.
C11_OneBandApartAnyBands ==
    (op.name = "query" /\ ret.kind = "candidates" /\ op.min = 1)
        => \A i, j \in DOMAIN hist :
              (OneBandApart(i, j) /\ op.sig = hist[i][2])
                 => \E e \in DOMAIN ret.out :
                       /\ ret.out[e][1] = hist[j][1]
                       /\ ret.out[e][2] >= params.bands - 1

\* C11 as amended: with bands >= 2, a query with one of two signatures that
\* differ only inside one band (each inserted once, under distinct ids) and
\* min_collisions = 1 returns the other id, with a count of at least bands - 1.
C11_OneBandApart ==
    (op.name = "query" /\ ret.kind = "candidates" /\ op.min = 1 /\ params.bands >= 2)
        => \A i, j \in DOMAIN hist :
              (OneBandApart(i, j) /\ op.sig = hist[i][2])
                 => \E e \in DOMAIN ret.out :
                       /\ ret.out[e][1] = hist[j][1]
                       /\ ret.out[e][2] >= params.bands - 1

C11_Witness ==
    /\ op.name = "query" /\ ret.kind = "candidates" /\ op.min = 1
    /\ params.bands >= 2 /\ params.rows_per_band >= 2
    /\ Len(hist) = 2
    /\ OneBandApart(1, 2)
    /\ hist[1][2] # hist[2][2]
    /\ op.sig = hist[2][2]
    /\ \E e \in DOMAIN ret.out :
          ret.out[e][1] = hist[1][1] /\ ret.out[e][2] = params.bands - 1

\* id x was inserted at least once, and only ever with signature s
InsertedOnlyWith(x, s) ==
    /\ TimesInserted(x) >= 1
    /\ \A i \in DOMAIN hist : hist[i][1] = x => hist[i][2] = s

\* C12 as claimed: for every m, when id X was inserted n times, always with
\* signature S, query_candidates(S, m) reports X with collision count n * bands.
C12_MultisetAnyMin ==
    (op.name = "query" /\ ret.kind = "candidates")
        => \A x \in Ids :
              InsertedOnlyWith(x, op.sig)
                 => \E e \in DOMAIN ret.out :
                       ret.out[e] = <<x, TimesInserted(x) * params.bands>>

\* C12 as amended: when id X was inserted n times, always with signature S, and
\* m <= n * bands, query_candidates(S, m) reports X with collision count
\* n * bands (the count is not capped at one per band).
C12_Multiset ==
    (op.name = "query" /\ ret.kind = "candidates")
        => \A x \in Ids :
              (InsertedOnlyWith(x, op.sig) /\ op.min <= TimesInserted(x) * params.bands)
                 => \E e \in DOMAIN ret.out :
                       ret.out[e] = <<x, TimesInserted(x) * params.bands>>

C12_Witness ==
    /\ op.name = "query" /\ ret.kind = "candidates"
    /\ params.bands >= 2
    /\ op.min > params.bands
    /\ \E x \in Ids :
          /\ InsertedOnlyWith(x, op.sig)
          /\ TimesInserted(x) = 2
          /\ ret.out = <<<<x, 2 * params.bands>>>>

(***************************************************************************)
(* Further properties of the KMV sketch (specification SpecKmv).           *)
(***************************************************************************)
\* the heap of a new sketch KmvSketch::new(kk) after update was called with the
\* elements of s from position i on, in order
RECURSIVE KmvRun(_, _, _, _)
KmvRun(h, kk, s, i) ==
    IF i > Len(s) THEN h ELSE KmvRun(KmvSketch_update(h, kk, s[i]), kk, s, i + 1)

\* the rearrangements of the sequence s
Rearrangements(s) ==
    {[i \in DOMAIN s |-> s[pi[i]]] : pi \in IterOrders(DOMAIN s)}

\* C13: update sequences that are permutations of one another produce the same
\* signature from finish, for every k.
C13_OrderInsensitive ==
    kpc = "finished"
        => \A s \in Rearrangements(seen) :
              KmvSketch_finish(KmvRun(EmptyBag, k, s, 1)) = ksig

(***************************************************************************)
(* Properties of LshParams (specification Spec).                           *)
(***************************************************************************)
\* C14: LshParams::new(bands, rows_per_band) returns the parameter error exactly
\* when bands = 0 or rows_per_band = 0; otherwise it returns parameters holding
\* both values unchanged, whose signature_len() is bands * rows_per_band.
C14_ParamsValidation ==
    op.name = "new"
        => /\ (ret = ZeroErr) <=> (op.b = 0 \/ op.r = 0)
           /\ (op.b # 0 /\ op.r # 0)
                 => /\ ret = OkRet
                    /\ params.bands = op.b
                    /\ params.rows_per_band = op.r
                    /\ signature_len(params) = op.b * op.r

C14_Witness ==
    /\ op.name = "new"
    /\ ret = ZeroErr
    /\ op.b >= 1
    /\ op.r = 0
    /\ st = "start"

(***************************************************************************)
(* jaccard_from_signatures applied to two signatures (specification        *)
(* SpecJaccard), as main does to sig_a and sig_b.                          *)
(***************************************************************************)
RECURSIVE SeqsUpTo(_)
SeqsUpTo(n) ==
    IF n = 0 THEN {<<>>}
    ELSE SeqsUpTo(n - 1)
           \cup {Append(s, v) : s \in {t \in SeqsUpTo(n - 1) : Len(t) = n - 1}, v \in {1, 2}}

JacInit ==
    /\ epc = "jaccard" /\ todo = {} /\ jac = F64Zero
    /\ sig_a \in SeqsUpTo(MaxSigLen)
    /\ sig_b \in SeqsUpTo(MaxSigLen)

\* let j = jaccard_from_signatures(&sig_a, &sig_b)
Jaccard ==
    /\ epc = "jaccard"
    /\ jac' = jaccard_from_signatures(sig_a, sig_b)
    /\ epc' = "estimated"
    /\ UNCHANGED <<todo, sig_a, sig_b, lshVars, kmvVars, mhVars>>

InitJaccard == JacInit /\ LshIdle /\ KmvIdle /\ MhIdle
NextJaccard == Jaccard
SpecJaccard == InitJaccard /\ [][NextJaccard]_vars

\* C15: with n = min(len(a), len(b)), jaccard_from_signatures(a, b) is 0 when
\* n = 0 and otherwise (number of positions i < n with a[i] = b[i]) / n; it is
\* symmetric in a and b, 1 for a = b nonempty, 0 when either is empty, and lies
\* in [0, 1].
C15_Jaccard ==
    epc = "estimated"
        => LET n  == Min2(Len(sig_a), Len(sig_b))
               eq == Cardinality({i \in 1 .. n : sig_a[i] = sig_b[i]})
           IN /\ n = 0 => jac = F64Zero
              /\ n > 0 => (jac.den > 0 /\ jac.num * n = eq * jac.den)
              /\ jac = jaccard_from_signatures(sig_b, sig_a)
              /\ (sig_a = sig_b /\ sig_a # <<>>) => jac = F64One
              /\ (sig_a = <<>> \/ sig_b = <<>>) => jac = F64Zero
              /\ 0 <= jac.num /\ jac.num <= jac.den

C15_Witness ==
    /\ epc = "estimated"
    /\ Len(sig_a) > Len(sig_b)
    /\ Len(sig_b) >= 2
    /\ jac.num > 0
    /\ jac.num < jac.den

(***************************************************************************)
(* Two index instances (specification Spec): the index of the run, and a   *)
(* second one built by with_params from equal parameters and given the     *)
(* same successful insert calls.                                           *)
(***************************************************************************)
RECURSIVE ReplayInserts(_, _, _, _)
ReplayInserts(bs, p, h, i) ==
    IF i > Len(h) THEN bs
    ELSE ReplayInserts(insert(bs, p, h[i][1], h[i][2]).bands, p, h, i + 1)

SecondIndex == ReplayInserts(with_params(params), params, hist, 1)

\* C16: two indices built independently from equal parameters and given the same
\* sequence of insert calls hold identical bucket maps (same keys per band, same
\* id lists in the same order) and return identical results for every query.
C16_Deterministic ==
    st = "ready"
        => /\ Contents(SecondIndex) = Contents(bands)
           /\ \A s \in Sigs(params), m \in Mins(params) :
                 \A r1 \in query_candidates(bands, params, s, m) :
                    \A r2 \in query_candidates(SecondIndex, params, s, m) : r1 = r2

\* two inserts share a bucket, and the index of the run was built in between
C16_Witness ==
    /\ st = "ready"
    /\ Len(hist) = 2
    /\ hist[1][1] # hist[2][1]
    /\ \E b \in DOMAIN bands : \E key \in DOMAIN bands[b] :
          Len(bands[b][key].buf) = 2 /\ bands[b][key].cap = 4
    /\ \E b \in DOMAIN bands : \E key \in DOMAIN bands[b] :
          Len(bands[b][key].buf) = 1 /\ bands[b][key].cap = 1

(***************************************************************************)
(* The update step of the KMV sketch (specification SpecKmv).              *)
(***************************************************************************)
\* the largest value of a nonempty bag
LargestOf(h) == CHOOSE v \in BagToSet(h) : \A w \in BagToSet(h) : w <= v

\* C17: update(h) adds h while fewer than k values are retained; with k values
\* retained, h replaces the largest retained value if and only if h is strictly
\* smaller than it, and otherwise the retained multiset is unchanged.
C17_UpdateStep ==
    [][(kpc = "open" /\ kpc' = "open" /\ k >= 1)
        => LET x == seen'[Len(seen')] IN
           IF HeapLen(heap) < k
           THEN heap' = heap (+) SetToBag({x})
           ELSE IF x < LargestOf(heap)
                THEN heap' = (heap (-) SetToBag({LargestOf(heap)})) (+) SetToBag({x})
                ELSE heap' = heap]_vars

(***************************************************************************)
(* The effect of a successful insert (specification Spec).                 *)
(***************************************************************************)
\* hash_band of band b's slice of signature s, with seed b xor index_seed
KeyOf(s, b) ==
    hash_band(SubSeq(s, b * params.rows_per_band + 1, (b + 1) * params.rows_per_band),
              Xor(b, INDEX_SEED))

\* the ids of the recorded inserts, from position i on, whose key in band b is key
RECURSIVE IdsUnder(_, _, _)
IdsUnder(b, key, i) ==
    IF i > Len(hist) THEN <<>>
    ELSE (IF KeyOf(hist[i][2], b) = key THEN <<hist[i][1]>> ELSE <<>>)
            \o IdsUnder(b, key, i + 1)

RECURSIVE SumLen(_, _)
SumLen(m, keys) ==
    IF keys = {} THEN 0
    ELSE LET key == CHOOSE x \in keys : TRUE
         IN  Len(m[key].buf) + SumLen(m, keys \ {key})

\* a successful insert appends id to the bucket of its key in every band, creating
\* the bucket if absent, and leaves every other bucket as it was
InsertAppends ==
    (op'.name = "insert" /\ ret'.kind = "ok")
        => /\ params' = params
           /\ DOMAIN bands' = DOMAIN bands
           /\ \A b \in DOMAIN bands :
                 LET key == KeyOf(op'.sig, b) IN
                 /\ DOMAIN bands'[b] = (DOMAIN bands[b]) \cup {key}
                 /\ bands'[b][key].buf
                      = Append(IF key \in DOMAIN bands[b] THEN bands[b][key].buf ELSE <<>>,
                               op'.id)
                 /\ \A other \in (DOMAIN bands[b]) \ {key} :
                       bands'[b][other] = bands[b][other]

\* after n successful inserts each band holds n id entries, each bucket the ids
\* inserted under its key, in insertion order
InsertionOrder ==
    st = "ready"
        => \A b \in DOMAIN bands :
              /\ SumLen(bands[b], DOMAIN bands[b]) = Len(hist)
              /\ \A key \in DOMAIN bands[b] : bands[b][key].buf = IdsUnder(b, key, 1)

\* C18: a successful insert(id, sig) appends id to the end of exactly one bucket
\* list in each band (the bucket keyed by hash_band of that band's slice with seed
\* b xor index_seed), creating it if absent, and changes nothing else; after n
\* successful inserts each band holds exactly n id entries, in insertion order
\* within each bucket.
C18_InsertAppends == [][InsertAppends]_vars /\ []InsertionOrder

C18_Witness ==
    /\ op.name = "insert" /\ ret.kind = "ok"
    /\ params.bands >= 2
    /\ Len(hist) = 2
    /\ hist[1][1] > hist[2][1]
    /\ \E key \in DOMAIN bands[0] : bands[0][key].buf = <<hist[1][1], hist[2][1]>>
    /\ \E key \in DOMAIN bands[1] : bands[1][key].buf = <<hist[2][1]>>

(***************************************************************************)
(* Further properties of MinHash (specification SpecMinHash).              *)
(***************************************************************************)
\* the mixer applied n times in a chain to s
RECURSIVE MixTimes(_, _)
MixTimes(s, n) == IF n = 0 THEN Wrap(s) ELSE splitmix64(MixTimes(s, n - 1))

LeastOf(S) == CHOOSE v \in S : \A w \in S : v <= w

\* slot i holds the minimum of the maximum word and mix_with_seed(x, seeds[i]) over
\* the updated x, seeds[i] being the mixer applied i times (slots numbered from 1)
SlotsAreMinima ==
    mpc \in {"open", "finished"}
        => /\ Len(seeds) = margs.num_hashes
           /\ Len(mins) = margs.num_hashes
           /\ \A i \in 1 .. margs.num_hashes :
                 /\ seeds[i] = MixTimes(margs.seed0, i)
                 /\ mins[i] = LeastOf({U64_MAX} \cup
                                 {mix_with_seed(x, MixTimes(margs.seed0, i)) : x \in Range(mseen)})
           /\ mpc = "finished" => msig = mins

SlotsNeverIncrease ==
    /\ Len(mins') = Len(mins)
    /\ \A i \in DOMAIN mins : mins'[i] <= mins[i]

\* C19: after any sequence of updates every slot i holds the minimum of the
\* initial maximum and mix_with_seed(x, seeds[i]) over all updated x, seeds[i]
\* being the mixer applied i+1 times (slots from 0) in a chain to seed0; so no slot
\* ever increases, every update examines all slots, and the signature depends
\* neither on the order nor on the repetition of the updates.
C19_SlotMinima == []SlotsAreMinima /\ [][SlotsNeverIncrease]_vars

C19_Witness ==
    /\ mpc = "finished"
    /\ margs.num_hashes >= 2
    /\ Len(mseen) >= 3
    /\ Cardinality(Range(mseen)) = 2
    /\ \A i \in DOMAIN msig : msig[i] < U64_MAX
    /\ msig[1] # msig[2]

(***************************************************************************)
(* Signatures longer than bands * rows_per_band (specification Spec).      *)
(***************************************************************************)
\* the signatures of at least bands * rows_per_band elements that agree with s on
\* the first bands * rows_per_band elements
SamePrefix(s) ==
    {t \in Sigs(params) :
        /\ Len(t) >= signature_len(params)
        /\ SubSeq(t, 1, signature_len(params)) = SubSeq(s, 1, signature_len(params))}

PrefixOnly ==
    /\ (op'.name = "insert" /\ Len(op'.sig) >= signature_len(params))
          => /\ ret' = OkRet
             /\ \A t \in SamePrefix(op'.sig) :
                   insert(bands, params, op'.id, t) = [ret |-> ret', bands |-> bands']
    /\ (op'.name = "query" /\ Len(op'.sig) >= signature_len(params))
          => /\ ret'.kind = "candidates"
             /\ \A t \in SamePrefix(op'.sig) :
                   query_candidates(bands, params, t, op'.min) = {ret'}

====
